---- MODULE Spec2Model ----
(***************************************************************************)
(* Model of main.py: the tracks table, the music directory, the connection *)
(* pool, the /api/now-playing lookup (get_now_playing), the background     *)
(* Fetcher (download_and_cache_track), the eviction sweep (cleanup_cache)   *)
(* and the other endpoints with the update_access_time thread of           *)
(* /api/stream.                                                            *)
(*                                                                         *)
(* Every request, Fetcher thread and sweep thread is a small process whose *)
(* steps are the places where the code touches the store, the directory,   *)
(* the pool, the lock or starts a thread; what a thread computes on its    *)
(* own between two such places belongs to the step that follows.           *)
(*                                                                         *)
(* Spec is the caching side: lookups, Fetchers and sweeps. Its byte sizes  *)
(* are counted in units of 0.5 GiB (2^29 bytes), so that CACHE_LIMIT_BYTES *)
(* = 3 GiB is 6 and CACHE_TARGET_BYTES = 2.5 GiB is 5.                     *)
(* ApiSpec is the serving side: /health, /api/tracks, /api/play and        *)
(* /api/stream with its update_access_time thread, on what the caching     *)
(* side left in the table and the directory. Its file sizes are in bytes.  *)
(* Text (paths, headers) is a sequence of strings, each a piece of it.     *)
(***************************************************************************)
EXTENDS Integers, Sequences, FiniteSets, TLC

\* ------------------------------------------------------------------ bounds

\* Number of /api/now-playing requests of a run; request l dispatches Fetcher l,
\* and Fetcher l starts sweep l.
NumLookups == 2

\* The canonical search_query values the external adapter can report.
Queries == {"a - x", "b - y"}

\* Sizes a downloaded artifact can have, in units of 0.5 GiB.
FileSizes == {3, 7}

\* Number of requests to /health, /api/tracks, /api/play and /api/stream of a
\* run; stream request r starts update_access_time thread r.
NumRequests == 1

\* Sizes, in bytes, of the artifact that is streamed.
StreamSizes == {3, 12}

\* The offsets a Range header names.
Positions == {0, 2, 11, 12}

\* ------------------------------------------------------- program constants

CACHE_LIMIT_BYTES == 6
CACHE_TARGET_BYTES == 5

\* Line 53: the absolute path of the music directory next to main.py.
MUSIC_DIRECTORY == <<"/", "app", "/", "music">>

\* Line 65: SimpleConnectionPool(minconn=1, maxconn=10, ...)
maxconn == 10

NULL == <<>>
NoRow == [status |-> "none", file_name |-> NULL, cached_at |-> 0, last_accessed_at |-> 0]

Lookups == 1..NumLookups
Requests == 1..NumRequests

VARIABLES
    tracks,        \* the tracks table: search_query -> row or NoRow
    files,         \* the music directory: file name -> size
    clock,         \* the store's NOW()
    lookups,       \* the get_now_playing requests
    fetchers,      \* the download_and_cache_track threads
    sweeps,        \* the cleanup_cache threads
    cleanup_lock,  \* TRUE while cleanup_lock is held
    checked_out,   \* connections taken from db_connection_pool and not put back
    requests,      \* the requests to /health, /api/tracks, /api/play, /api/stream
    touches        \* the update_access_time threads

vars == <<tracks, files, clock, lookups, fetchers, sweeps, cleanup_lock,
          checked_out, requests, touches>>

\* ----------------------------------------------------------------- helpers

\* str(uuid.uuid4()) of the n-th Fetcher: distinct Fetchers draw distinct UUIDs.
HexDigits == <<"1", "2", "3", "4", "5", "6", "7", "8", "9", "a", "b", "c", "d", "e", "f">>
uuid4(n) == <<HexDigits[n]>>

\* f"{uuid.uuid4()}.opus"
unique_filename(n) == uuid4(n) \o <<".opus">>

\* os.path.join(dir, name): an absolute name replaces dir.
path_join(dir, name) ==
    IF name # <<>> /\ Head(name) = "/" THEN name ELSE dir \o <<"/">> \o name

\* A name is a basename when it holds no path separator.
IsBasename(name) == \A i \in 1..Len(name) : name[i] # "/"

\* Python truthiness of a file_name column: None and '' are falsy.
Truthy(file_name) == file_name # NULL

\* os.path.exists(os.path.join(MUSIC_DIRECTORY, file_name))
path_exists(file_name) == file_name \in DOMAIN files

RECURSIVE SumSizes(_)
SumSizes(names) ==
    IF names = {} THEN 0
    ELSE LET n == CHOOSE x \in names : TRUE
         IN files[n] + SumSizes(names \ {n})

\* sum(os.path.getsize(...) for f in os.listdir(MUSIC_DIRECTORY) ...)
total_size == SumSizes(DOMAIN files)

HasRow(q) == tracks[q] # NoRow

\* Line 72: db_connection_pool.getconn(); line 75: db_connection_pool.putconn(conn).
\* A pool with maxconn connections out raises PoolError on getconn.
getconn(n) == n + 1
putconn(n) == n - 1

\* A function without the key k.
Without(f, k) == [x \in DOMAIN f \ {k} |-> f[x]]

\* ------------------------------------------------------------------- Init

IdleLookup == [pc |-> "idle", q |-> "", result |-> NoRow,
               file_is_missing |-> FALSE, inserted |-> FALSE, status |-> ""]
\* A request that has been answered: of its locals only the response is kept,
\* the query and the status field of jsonify(track_info), or the HTTP error code.
Answered(q, status) == [IdleLookup EXCEPT !.pc = "done", !.q = q, !.status = status]
\* A Fetcher thread, a sweep thread that has ended.
EndedFetcher == [pc |-> "ended", q |-> "", file_name |-> NULL]
NoFetcher == [pc |-> "none", q |-> "", file_name |-> NULL]
NoSweep == [pc |-> "none", bytes_to_delete |-> 0, deleted_bytes_total |-> 0,
            tracks_to_delete |-> <<>>, file_size |-> 0]
EndedSweep == [NoSweep EXCEPT !.pc = "done"]

\* A response: the status code and, for a stream, the Content-Length and
\* Content-Range headers and the body.
NoResponse == [status |-> 0, content_length |-> NULL, content_range |-> NULL, body |-> NULL]
\* A request to /health, /api/tracks, /api/play or /api/stream: what the client
\* sent, the handler's locals and the response.
IdleRequest == [pc |-> "idle", endpoint |-> "", api_key |-> NULL, file_name |-> NULL,
                range_header |-> NULL, search_query |-> "", result |-> NoRow,
                response |-> NoResponse]
\* An update_access_time thread.
NoTouch == [pc |-> "none", file_name |-> NULL]
EndedTouch == [pc |-> "done", file_name |-> NULL]

\* The tracks table and the music directory outlive the process. The service
\* starts on what an earlier run left: nothing; or a track that a Fetcher cached
\* (lines 200-210), with its file or, after a sweep whose os.remove went through
\* and whose DELETE raised (lines 154-165), without it.
old_filename == unique_filename(NumLookups + 1)
old_row == [status |-> "cached", file_name |-> old_filename, cached_at |-> 1,
            last_accessed_at |-> 1]
EmptyStore == [q \in Queries |-> NoRow]
OldStore == [EmptyStore EXCEPT !["a - x"] = old_row]
Starts ==
    {[tracks |-> EmptyStore, files |-> <<>>, clock |-> 0],
     [tracks |-> OldStore, files |-> <<>>, clock |-> 1]}
    \cup {[tracks |-> OldStore, files |-> (old_filename :> size), clock |-> 1] :
            size \in FileSizes}

Init ==
    /\ \E start \in Starts :
         /\ tracks = start.tracks
         /\ files = start.files
         /\ clock = start.clock
    /\ lookups = [l \in Lookups |-> IdleLookup]
    /\ fetchers = [l \in Lookups |-> NoFetcher]
    /\ sweeps = [l \in Lookups |-> NoSweep]
    /\ cleanup_lock = FALSE
    /\ checked_out = 0
    /\ requests = [r \in Requests |-> IdleRequest]
    /\ touches = [r \in Requests |-> NoTouch]

\* ------------------------------------------------ get_now_playing (lookup)

\* The lookups are the /api/now-playing requests that require_api_key let
\* through. Requests are numbered in the order they arrive.
Arrives(l) ==
    /\ lookups[l].pc = "idle"
    /\ IF l = 1 THEN TRUE ELSE lookups[l - 1].pc # "idle"

\* Lines 236-244 and 281-283: nothing is playing, or the provider call fails.
LookupNoTrack(l) ==
    /\ Arrives(l)
    /\ \E outcome \in {"not_playing", "502"} :
         lookups' = [lookups EXCEPT ![l] = Answered("", outcome)]
    /\ UNCHANGED <<tracks, files, clock, fetchers, sweeps, cleanup_lock, checked_out, requests, touches>>

\* Line 267 as it would read if every row that is not served were cached again.
MustCache_unless_cached(result, file_is_missing) ==
    result = NoRow \/ file_is_missing \/ result.status # "cached"

\* Line 267: if not result or file_is_missing.
MustCache(result, file_is_missing) == result = NoRow \/ file_is_missing

\* Lines 256-262, 277-280 and 291: a connection is taken from the pool (it goes
\* back when the request is answered); SELECT file_name, status FROM tracks WHERE
\* search_query = q. A row that is cached and names a file goes on to the
\* os.path.exists check; a row that line 267 does not cache again is answered
\* with its status; otherwise the request goes on to its write.
LookupSelect(l) ==
    /\ Arrives(l)
    /\ checked_out < maxconn
    /\ \E q \in Queries :
         LET result == tracks[q]
             file_is_missing == result.status = "cached" /\ ~Truthy(result.file_name)
         IN lookups' = [lookups EXCEPT ![l] =
                IF result.status = "cached" /\ Truthy(result.file_name)
                THEN [@ EXCEPT !.pc = "selected", !.q = q, !.result = result]
                ELSE IF MustCache(result, file_is_missing)
                THEN [@ EXCEPT !.pc = "checked", !.q = q, !.result = result,
                               !.file_is_missing = file_is_missing]
                ELSE Answered(q, result.status)]
    /\ checked_out' = IF lookups'[l].pc = "done" THEN checked_out ELSE getconn(checked_out)
    /\ UNCHANGED <<tracks, files, clock, fetchers, sweeps, cleanup_lock, requests, touches>>

\* Lines 256-259 raising psycopg2.Error (PoolError is one): lines 284-291.
LookupSelectFail(l) ==
    /\ Arrives(l)
    /\ lookups' = [lookups EXCEPT ![l] = Answered("", "500")]
    /\ UNCHANGED <<tracks, files, clock, fetchers, sweeps, cleanup_lock, checked_out, requests, touches>>

\* Lines 263-265 and 277-280: os.path.exists on the file the row names; with the
\* file there the answer is the row's status, cached.
LookupCheckFile(l) ==
    /\ lookups[l].pc = "selected"
    /\ LET file_is_missing == ~path_exists(lookups[l].result.file_name)
       IN lookups' = [lookups EXCEPT ![l] =
              IF MustCache(lookups[l].result, file_is_missing)
              THEN [@ EXCEPT !.pc = "checked", !.file_is_missing = file_is_missing]
              ELSE Answered(lookups[l].q, lookups[l].result.status)]
    /\ checked_out' = IF lookups'[l].pc = "done" THEN putconn(checked_out) ELSE checked_out
    /\ UNCHANGED <<tracks, files, clock, fetchers, sweeps, cleanup_lock, requests, touches>>

\* Line 270 without the file_name = NULL assignment.
reset_to_caching_keeping_file(q) ==
    IF HasRow(q) THEN [tracks EXCEPT ![q].status = "caching"] ELSE tracks

\* Line 270: UPDATE tracks SET status = 'caching', file_name = NULL WHERE search_query = q.
reset_to_caching(q) ==
    IF HasRow(q)
    THEN [tracks EXCEPT ![q].status = "caching", ![q].file_name = NULL]
    ELSE tracks

\* Line 272: INSERT ... VALUES (q, 'caching') ON CONFLICT (search_query) DO NOTHING.
try_insert_caching(q) ==
    IF HasRow(q)
    THEN tracks
    ELSE [tracks EXCEPT ![q] = [NoRow EXCEPT !.status = "caching"]]

\* Lines 267-274: the write and its commit. inserted is the INSERT's row count,
\* which the code does not read.
LookupWrite(l) ==
    /\ lookups[l].pc = "checked"
    /\ LET q == lookups[l].q
       IN /\ tracks' = IF lookups[l].file_is_missing
                       THEN reset_to_caching(q)
                       ELSE try_insert_caching(q)
          /\ lookups' = [lookups EXCEPT
                 ![l].pc = "written",
                 ![l].status = "caching",
                 ![l].inserted = (~lookups[l].file_is_missing /\ ~HasRow(q))]
    /\ UNCHANGED <<files, clock, fetchers, sweeps, cleanup_lock, checked_out, requests, touches>>

\* Lines 270-274 raising psycopg2.Error: lines 284-291.
LookupWriteFail(l) ==
    /\ lookups[l].pc = "checked"
    /\ lookups' = [lookups EXCEPT ![l] = Answered("", "500")]
    /\ checked_out' = putconn(checked_out)
    /\ UNCHANGED <<tracks, files, clock, fetchers, sweeps, cleanup_lock, requests, touches>>

\* Lines 275-276, 280 and 291: the Fetcher thread starts, the response is sent,
\* the connection goes back to the pool.
dispatch(l) ==
    [fetchers EXCEPT ![l] = [pc |-> "start", q |-> lookups[l].q,
                             file_name |-> NULL]]

LookupDispatch(l) ==
    /\ lookups[l].pc = "written"
    /\ fetchers' = dispatch(l)
    /\ lookups' = [lookups EXCEPT ![l] = Answered(lookups[l].q, lookups[l].status)]
    /\ checked_out' = putconn(checked_out)
    /\ UNCHANGED <<tracks, files, clock, sweeps, cleanup_lock, requests, touches>>

\* --------------------------------------- download_and_cache_track (Fetcher)

\* Line 218: UPDATE tracks SET status = 'error' WHERE search_query = q.
mark_error(q) ==
    IF HasRow(q) THEN [tracks EXCEPT ![q].status = "error"] ELSE tracks

\* Line 179 raising: conn is None, so lines 216-222 write nothing.
FetcherConnectFail(f) ==
    /\ fetchers[f].pc = "start"
    /\ fetchers' = [fetchers EXCEPT ![f] = EndedFetcher]
    /\ UNCHANGED <<tracks, files, clock, lookups, sweeps, cleanup_lock, checked_out, requests, touches>>

\* Lines 179-200: the store connection, the fresh file name, the extractor's
\* output, and os.rename putting it at final_filepath.
FetcherDownload(f) ==
    /\ fetchers[f].pc = "start"
    /\ \E size \in FileSizes :
         files' = (unique_filename(f) :> size) @@ files
    /\ fetchers' = [fetchers EXCEPT ![f].pc = "renamed", ![f].file_name = unique_filename(f)]
    /\ UNCHANGED <<tracks, clock, lookups, sweeps, cleanup_lock, checked_out, requests, touches>>

\* Lines 192-198 raising (extractor error, no entry, reported path missing),
\* then lines 214-220: the error status is written.
FetcherDownloadFail(f) ==
    /\ fetchers[f].pc = "start"
    /\ tracks' = mark_error(fetchers[f].q)
    /\ fetchers' = [fetchers EXCEPT ![f] = EndedFetcher]
    /\ UNCHANGED <<files, clock, lookups, sweeps, cleanup_lock, checked_out, requests, touches>>

\* Line 208 with final_filepath in the place of unique_filename.
cached_file_path(f) == path_join(MUSIC_DIRECTORY, fetchers[f].file_name)

\* The value the UPDATE of lines 204-209 stores in file_name.
cached_file_name(f) == fetchers[f].file_name

\* Lines 204-210: UPDATE tracks SET status = 'cached', file_name = ...,
\* cached_at = NOW(), last_accessed_at = NOW() WHERE search_query = q.
mark_cached(q, f) ==
    IF HasRow(q)
    THEN [tracks EXCEPT ![q] = [status |-> "cached", file_name |-> cached_file_name(f),
                                cached_at |-> clock + 1, last_accessed_at |-> clock + 1]]
    ELSE tracks

\* Line 213: threading.Thread(target=cleanup_cache).start()
start_cleanup(f) == [sweeps EXCEPT ![f].pc = "start"]

\* Lines 203-213: tags read, row updated and committed, sweep scheduled.
FetcherMarkCached(f) ==
    /\ fetchers[f].pc = "renamed"
    /\ tracks' = mark_cached(fetchers[f].q, f)
    /\ clock' = clock + 1
    /\ sweeps' = start_cleanup(f)
    /\ fetchers' = [fetchers EXCEPT ![f] = EndedFetcher]
    /\ UNCHANGED <<files, lookups, cleanup_lock, checked_out, requests, touches>>

\* Lines 203-210 raising (tag read failure, store write failure), then lines
\* 214-220: the error status is written. The renamed file stays.
FetcherMarkCachedFail(f) ==
    /\ fetchers[f].pc = "renamed"
    /\ tracks' = mark_error(fetchers[f].q)
    /\ fetchers' = [fetchers EXCEPT ![f] = EndedFetcher]
    /\ UNCHANGED <<files, clock, lookups, sweeps, cleanup_lock, checked_out, requests, touches>>

\* Lines 192-210 raising and the error write of lines 219-220 raising too: it is
\* only logged (lines 221-222).
FetcherMarkErrorFail(f) ==
    /\ fetchers[f].pc \in {"start", "renamed"}
    /\ fetchers' = [fetchers EXCEPT ![f] = EndedFetcher]
    /\ UNCHANGED <<tracks, files, clock, lookups, sweeps, cleanup_lock, checked_out, requests, touches>>

\* ------------------------------------------------ cleanup_cache (the sweep)

\* Line 120 with a lock that every caller gets.
acquire_always(locked) == TRUE

\* Line 120: cleanup_lock.acquire(blocking=False) is True when the lock was free.
acquire(locked) == ~locked

\* Line 173 left out: the lock stays as it is.
release_skipped(locked) == locked

\* Line 173: cleanup_lock.release() in the finally of the sweep.
release(locked) == FALSE

\* Lines 120-122: a sweep that does not get the lock returns.
SweepAcquire(s) ==
    /\ sweeps[s].pc = "start"
    /\ IF ~acquire(cleanup_lock)
       THEN /\ sweeps' = [sweeps EXCEPT ![s] = EndedSweep]
            /\ UNCHANGED cleanup_lock
       ELSE /\ sweeps' = [sweeps EXCEPT ![s].pc = "check"]
            /\ cleanup_lock' = TRUE
    /\ UNCHANGED <<tracks, files, clock, lookups, fetchers, checked_out, requests, touches>>

\* Line 128: if total_size <= CACHE_LIMIT_BYTES: return.
below_limit(total) == total <= CACHE_LIMIT_BYTES

\* Lines 126-136: the directory is summed; below the limit the sweep returns
\* (line 173 releases the lock), above it the byte count to free is set.
SweepCheck(s) ==
    /\ sweeps[s].pc = "check"
    /\ IF below_limit(total_size)
       THEN /\ sweeps' = [sweeps EXCEPT ![s] = EndedSweep]
            /\ cleanup_lock' = release(cleanup_lock)
       ELSE /\ sweeps' = [sweeps EXCEPT ![s].pc = "select",
                                        ![s].bytes_to_delete = total_size - CACHE_TARGET_BYTES]
            /\ UNCHANGED cleanup_lock
    /\ UNCHANGED <<tracks, files, clock, lookups, fetchers, checked_out, requests, touches>>

\* Line 126 raising (os.listdir, os.path.getsize): lines 170-173.
SweepCheckFail(s) ==
    /\ sweeps[s].pc = "check"
    /\ sweeps' = [sweeps EXCEPT ![s] = EndedSweep]
    /\ cleanup_lock' = release(cleanup_lock)
    /\ UNCHANGED <<tracks, files, clock, lookups, fetchers, checked_out, requests, touches>>

\* The queries whose row has status 'cached'.
CachedQueries == {q \in Queries : tracks[q].status = "cached"}

\* Line 140 with ORDER BY last_accessed_at DESC.
list_cached_lru_desc ==
    {order \in [1..Cardinality(CachedQueries) -> CachedQueries] :
        /\ \A i, j \in DOMAIN order : i # j => order[i] # order[j]
        /\ \A i, j \in DOMAIN order :
             i < j => tracks[order[i]].last_accessed_at >= tracks[order[j]].last_accessed_at}

\* Line 140: SELECT file_name FROM tracks WHERE status = 'cached'
\* ORDER BY last_accessed_at ASC: every order the store can return.
list_cached_lru_asc ==
    {order \in [1..Cardinality(CachedQueries) -> CachedQueries] :
        /\ \A i, j \in DOMAIN order : i # j => order[i] # order[j]
        /\ \A i, j \in DOMAIN order :
             i < j => tracks[order[i]].last_accessed_at <= tracks[order[j]].last_accessed_at}

\* Lines 138-141.
SweepSelect(s) ==
    /\ sweeps[s].pc = "select"
    /\ checked_out < maxconn
    /\ checked_out' = getconn(checked_out)
    /\ \E order \in list_cached_lru_asc :
         sweeps' = [sweeps EXCEPT
             ![s].pc = "loop",
             ![s].tracks_to_delete = [i \in DOMAIN order |-> tracks[order[i]].file_name]]
    /\ UNCHANGED <<tracks, files, clock, lookups, fetchers, cleanup_lock, requests, touches>>

\* Line 138 raising: lines 170-173, with no connection taken.
SweepConnectFail(s) ==
    /\ sweeps[s].pc = "select"
    /\ sweeps' = [sweeps EXCEPT ![s] = EndedSweep]
    /\ cleanup_lock' = release(cleanup_lock)
    /\ UNCHANGED <<tracks, files, clock, lookups, fetchers, checked_out, requests, touches>>

\* Lines 139-141 raising: lines 170-173 log the error and release the lock; the
\* connection of line 138 is put back only at line 168, which is not reached.
SweepSelectFail(s) ==
    /\ sweeps[s].pc = "select"
    /\ checked_out < maxconn
    /\ checked_out' = getconn(checked_out)
    /\ sweeps' = [sweeps EXCEPT ![s] = EndedSweep]
    /\ cleanup_lock' = release(cleanup_lock)
    /\ UNCHANGED <<tracks, files, clock, lookups, fetchers, requests, touches>>

\* Line 143-145: the loop is over when the list is or enough bytes are freed.
LoopOver(s) ==
    \/ sweeps[s].tracks_to_delete = <<>>
    \/ sweeps[s].deleted_bytes_total >= sweeps[s].bytes_to_delete

\* Lines 143-145 and 167-173: connection returned, lock released.
SweepFinish(s) ==
    /\ sweeps[s].pc = "loop"
    /\ LoopOver(s)
    /\ sweeps' = [sweeps EXCEPT ![s] = EndedSweep]
    /\ cleanup_lock' = release(cleanup_lock)
    /\ checked_out' = putconn(checked_out)
    /\ UNCHANGED <<tracks, files, clock, lookups, fetchers, requests, touches>>

\* Lines 147-151: a victim without file_name, or whose file is not there, is passed over.
SweepSkip(s) ==
    /\ sweeps[s].pc = "loop"
    /\ ~LoopOver(s)
    /\ LET file_name == Head(sweeps[s].tracks_to_delete)
       IN ~Truthy(file_name) \/ ~path_exists(file_name)
    /\ sweeps' = [sweeps EXCEPT ![s].tracks_to_delete = Tail(@)]
    /\ UNCHANGED <<tracks, files, clock, lookups, fetchers, cleanup_lock, checked_out, requests, touches>>

\* Lines 151-154: os.path.getsize and os.remove of the victim's file.
SweepUnlink(s) ==
    /\ sweeps[s].pc = "loop"
    /\ ~LoopOver(s)
    /\ LET file_name == Head(sweeps[s].tracks_to_delete)
       IN /\ Truthy(file_name)
          /\ path_exists(file_name)
          /\ files' = Without(files, file_name)
          /\ sweeps' = [sweeps EXCEPT ![s].pc = "unlinked", ![s].file_size = files[file_name]]
    /\ UNCHANGED <<tracks, clock, lookups, fetchers, cleanup_lock, checked_out, requests, touches>>

\* Line 157: DELETE FROM tracks WHERE file_name = %s.
delete_by_file_name(file_name) ==
    [q \in Queries |-> IF tracks[q].file_name = file_name THEN NoRow ELSE tracks[q]]

\* The table if the DELETE of line 157 ran although os.remove raised.
after_unlink_error_row_deleted(file_name) == delete_by_file_name(file_name)

\* The table after os.remove raised (lines 164-165): no row is deleted.
after_unlink_error(file_name) == tracks

\* Lines 153-154 raising: the error is logged, the loop goes on.
SweepUnlinkFail(s) ==
    /\ sweeps[s].pc = "loop"
    /\ ~LoopOver(s)
    /\ LET file_name == Head(sweeps[s].tracks_to_delete)
       IN /\ Truthy(file_name)
          /\ path_exists(file_name)
          /\ tracks' = after_unlink_error(file_name)
    /\ sweeps' = [sweeps EXCEPT ![s].tracks_to_delete = Tail(@)]
    /\ UNCHANGED <<files, clock, lookups, fetchers, cleanup_lock, checked_out, requests, touches>>

\* Lines 156-162: the row is deleted, the freed bytes are counted.
SweepDeleteRow(s) ==
    /\ sweeps[s].pc = "unlinked"
    /\ tracks' = delete_by_file_name(Head(sweeps[s].tracks_to_delete))
    /\ sweeps' = [sweeps EXCEPT
           ![s].pc = "loop",
           ![s].tracks_to_delete = Tail(@),
           ![s].deleted_bytes_total = @ + sweeps[s].file_size,
           ![s].file_size = 0]
    /\ UNCHANGED <<files, clock, lookups, fetchers, cleanup_lock, checked_out, requests, touches>>

\* Lines 156-158 raising: the error is logged, the row stays, the loop goes on.
SweepDeleteRowFail(s) ==
    /\ sweeps[s].pc = "unlinked"
    /\ sweeps' = [sweeps EXCEPT
           ![s].pc = "loop",
           ![s].tracks_to_delete = Tail(@),
           ![s].file_size = 0]
    /\ UNCHANGED <<tracks, files, clock, lookups, fetchers, cleanup_lock, checked_out, requests, touches>>

\* ------------------------------------------------------------ text and paths

Digits == <<"0", "1", "2", "3", "4", "5", "6", "7", "8", "9">>
IsDigit(c) == \E d \in DOMAIN Digits : Digits[d] = c
digit_value(c) == (CHOOSE d \in DOMAIN Digits : Digits[d] = c) - 1

\* int(s) of a string of decimal digits.
RECURSIVE int(_)
int(s) ==
    IF s = <<>> THEN 0
    ELSE int(SubSeq(s, 1, Len(s) - 1)) * 10 + digit_value(s[Len(s)])

\* str(n), the decimal text of an integer.
RECURSIVE str(_)
str(n) ==
    IF n < 0 THEN <<"-">> \o str(-n)
    ELSE IF n < 10 THEN <<Digits[n + 1]>>
    ELSE str(n \div 10) \o <<Digits[(n % 10) + 1]>>

\* The length of the run of digits of s that starts at index i.
RECURSIVE digit_run(_, _)
digit_run(s, i) ==
    IF i <= Len(s) /\ IsDigit(s[i]) THEN 1 + digit_run(s, i + 1) ELSE 0

\* s.startswith(prefix)
startswith(s, prefix) ==
    Len(s) >= Len(prefix) /\ SubSeq(s, 1, Len(prefix)) = prefix

\* The components of a path: the pieces between its separators.
RECURSIVE split(_, _, _)
split(path, done, cur) ==
    IF path = <<>> THEN Append(done, cur)
    ELSE IF Head(path) = "/" THEN split(Tail(path), Append(done, cur), <<>>)
    ELSE split(Tail(path), done, Append(cur, Head(path)))

\* os.path.normpath on the components of an absolute path: empty and '.'
\* components are dropped, '..' drops the component before it.
RECURSIVE normpath(_, _)
normpath(components, kept) ==
    IF components = <<>> THEN kept
    ELSE LET c == Head(components)
         IN IF c = <<>> \/ c = <<".">> THEN normpath(Tail(components), kept)
            ELSE IF c = <<"..">>
            THEN normpath(Tail(components),
                          IF kept = <<>> THEN kept ELSE SubSeq(kept, 1, Len(kept) - 1))
            ELSE normpath(Tail(components), Append(kept, c))

RECURSIVE join_components(_)
join_components(components) ==
    IF components = <<>> THEN <<>>
    ELSE <<"/">> \o Head(components) \o join_components(Tail(components))

\* os.path.abspath(path) of an absolute path.
abspath(path) ==
    LET kept == normpath(split(path, <<>>, <<>>), <<>>)
    IN IF kept = <<>> THEN <<"/">> ELSE join_components(kept)

\* What the host has outside the music directory: a file in a directory whose
\* name begins like the music directory's, and the directories above.
OutsideFiles == (<<"/", "app", "/", "music", "2", "/", "x">> :> 2)
Directories == {<<"/">>, <<"/", "app">>, <<"/", "app", "/", "music", "2">>, MUSIC_DIRECTORY}

\* The files of the music directory by their absolute paths.
InsideFiles == {path_join(MUSIC_DIRECTORY, name) : name \in DOMAIN files}

\* os.path.exists(path)
os_path_exists(path) ==
    abspath(path) \in Directories \cup InsideFiles \cup DOMAIN OutsideFiles

\* The size os.path.getsize reports for a directory.
DirectorySize == 4

\* os.path.getsize(path) of a path that exists.
getsize(path) ==
    LET p == abspath(path)
    IN IF p \in Directories THEN DirectorySize
       ELSE IF p \in DOMAIN OutsideFiles THEN OutsideFiles[p]
       ELSE files[CHOOSE name \in DOMAIN files : path_join(MUSIC_DIRECTORY, name) = p]

\* The bytes of the file at path, which exists and is not a directory.
file_bytes(path) ==
    LET p == abspath(path)
    IN [i \in 1..getsize(path) |-> (37 * i + (IF p \in DOMAIN OutsideFiles THEN 1 ELSE 0)) % 256]

\* What a body is when reading the file raises while the body is produced.
Broken == <<-1>>

\* f.seek(start); f.read(length) on the open file: read(-1) reads to the end,
\* a length below -1 raises ValueError; opening a directory raises.
seek_read(path, start, length) ==
    IF abspath(path) \in Directories \/ length < -1 THEN Broken
    ELSE LET content == file_bytes(path)
             last == IF length = -1 \/ start + length > Len(content)
                     THEN Len(content) ELSE start + length
         IN SubSeq(content, start + 1, last)

\* ------------------------------------------------- requests: key and routing

\* settings.API_KEY, and what a client can send as a key: nothing, it, another.
API_KEY == <<"secret">>
Keys == {NULL, API_KEY, <<"wrong">>}

\* Line 80: request.headers.get('X-API-Key') or request.args.get('apiKey').
sent_key(header, arg) == IF Truthy(header) THEN header ELSE arg

\* The keys that reach line 81.
SentKeys == {sent_key(header, arg) : header \in Keys, arg \in Keys}

\* Line 81 without the test for a missing key.
authorized_or_missing(api_key) == ~Truthy(api_key) \/ api_key = API_KEY

\* Lines 81-83: the view runs when the key is there and is the configured one.
authorized(api_key) == Truthy(api_key) /\ api_key = API_KEY

\* The endpoints behind require_api_key (lines 231-232, 293-294, 315-316, 340-341).
ApiEndpoints == {"now-playing", "tracks", "play", "stream"}

\* The <name> of /api/stream/<name> a client can put in the URL: the cached
\* artifact, a name that is not in the directory, the directory itself, the
\* directory above, and a path to a file outside.
StreamNames ==
    {old_filename, <<"f", ".opus">>, <<".">>, <<"..">>,
     <<"..", "/", "music", "2", "/", "x">>}

\* Line 340 with the converter <path:file_name>, which matches separators too.
path_converter(file_name) == file_name # <<>> /\ Head(file_name) # "/"

\* Line 340: <string:file_name> matches one non-empty segment without separator.
string_converter(file_name) == file_name # <<>> /\ IsBasename(file_name)

\* Requests are numbered in the order they arrive.
RequestArrives(r) ==
    /\ requests[r].pc = "idle"
    /\ IF r = 1 THEN TRUE ELSE requests[r - 1].pc # "idle"

\* A request that has been answered.
Responded(request, response) == [request EXCEPT !.pc = "done", !.response = response]
Status(code) == [NoResponse EXCEPT !.status = code]

\* Lines 77-83: abort(401) of require_api_key, before the view is called. The
\* view of /api/now-playing behind it is the Lookup process.
Unauthorized(r) ==
    /\ RequestArrives(r)
    /\ \E endpoint \in ApiEndpoints, header \in Keys, arg \in Keys :
         /\ ~authorized(sent_key(header, arg))
         /\ requests' = [requests EXCEPT ![r] =
                Responded([@ EXCEPT !.endpoint = endpoint, !.api_key = sent_key(header, arg)],
                          Status(401))]
    /\ UNCHANGED <<tracks, files, clock, lookups, fetchers, sweeps, cleanup_lock,
                   checked_out, touches>>

\* Line 340: a URL below /api/stream/ that the route does not match is answered
\* 404 by the router; no view and no decorator runs.
StreamNoRoute(r) ==
    /\ RequestArrives(r)
    /\ \E file_name \in StreamNames, header \in Keys, arg \in Keys :
         /\ ~string_converter(file_name)
         /\ requests' = [requests EXCEPT ![r] =
                Responded([@ EXCEPT !.endpoint = "no route", !.file_name = file_name,
                                    !.api_key = sent_key(header, arg)],
                          Status(404))]
    /\ UNCHANGED <<tracks, files, clock, lookups, fetchers, sweeps, cleanup_lock,
                   checked_out, touches>>

\* Lines 311-313: /health, with whatever key or none.
health(r) ==
    /\ RequestArrives(r)
    /\ \E header \in Keys, arg \in Keys :
         requests' = [requests EXCEPT ![r] =
             Responded([@ EXCEPT !.endpoint = "health", !.api_key = sent_key(header, arg)],
                       [Status(200) EXCEPT !.body = <<"{\"status\":\"ok\"}">>])]
    /\ UNCHANGED <<tracks, files, clock, lookups, fetchers, sweeps, cleanup_lock,
                   checked_out, touches>>

\* ------------------------------------------------------------- list_tracks

\* Line 300: SELECT file_name, ... FROM tracks WHERE status = 'cached'
\* ORDER BY cached_at DESC: every order the store can return.
list_cached_by_cached_at ==
    {order \in [1..Cardinality(CachedQueries) -> CachedQueries] :
        /\ \A i, j \in DOMAIN order : i # j => order[i] # order[j]
        /\ \A i, j \in DOMAIN order :
             i < j => tracks[order[i]].cached_at >= tracks[order[j]].cached_at}

\* Lines 296-304 and 309: the connection is taken, the cached rows are read and
\* answered as a list of fileName, the connection is returned.
list_tracks(r) ==
    \E api_key \in SentKeys :
        /\ authorized(api_key)
        /\ RequestArrives(r)
        /\ checked_out < maxconn
        /\ \E order \in list_cached_by_cached_at :
             requests' = [requests EXCEPT ![r] =
                 Responded([@ EXCEPT !.endpoint = "tracks", !.api_key = api_key],
                           [Status(200) EXCEPT !.body =
                               [i \in DOMAIN order |-> tracks[order[i]].file_name]])]
        /\ UNCHANGED <<tracks, files, clock, lookups, fetchers, sweeps, cleanup_lock,
                       checked_out, touches>>

\* Lines 298-301 raising psycopg2.Error: lines 305-309.
list_tracks_fail(r) ==
    \E api_key \in SentKeys :
        /\ authorized(api_key)
        /\ RequestArrives(r)
        /\ requests' = [requests EXCEPT ![r] =
               Responded([@ EXCEPT !.endpoint = "tracks", !.api_key = api_key], Status(500))]
        /\ UNCHANGED <<tracks, files, clock, lookups, fetchers, sweeps, cleanup_lock,
                       checked_out, touches>>

\* ------------------------------------------------- get_streamable_track (play)

\* Lines 318-322: a body that is not JSON is answered 415, blank names 400; a
\* missing name raises at song_name.strip() and is answered 500.
play_bad_request(r) ==
    \E api_key \in SentKeys :
        /\ authorized(api_key)
        /\ RequestArrives(r)
        /\ \E code \in {415, 400, 500} :
             requests' = [requests EXCEPT ![r] =
                 Responded([@ EXCEPT !.endpoint = "play", !.api_key = api_key], Status(code))]
        /\ UNCHANGED <<tracks, files, clock, lookups, fetchers, sweeps, cleanup_lock,
                       checked_out, touches>>

\* Line 328: SELECT file_name FROM tracks WHERE search_query = q AND status = 'cached'.
select_cached(q) == IF tracks[q].status = "cached" THEN tracks[q] ELSE NoRow

\* Lines 323-333: the connection is taken and the row read; without a cached
\* row the answer is 404 and the connection is returned (line 338).
play_select(r) ==
    \E api_key \in SentKeys :
        /\ authorized(api_key)
        /\ RequestArrives(r)
        /\ checked_out < maxconn
        /\ \E q \in Queries :
             requests' = [requests EXCEPT ![r] =
                 LET request == [@ EXCEPT !.endpoint = "play", !.api_key = api_key,
                                          !.search_query = q, !.result = select_cached(q)]
                 IN IF select_cached(q) = NoRow
                    THEN Responded(request, Status(404))
                    ELSE [request EXCEPT !.pc = "selected"]]
        /\ checked_out' = IF requests'[r].pc = "done" THEN checked_out ELSE getconn(checked_out)
        /\ UNCHANGED <<tracks, files, clock, lookups, fetchers, sweeps, cleanup_lock, touches>>

\* Lines 326-329 raising psycopg2.Error: lines 334-338.
play_select_fail(r) ==
    \E api_key \in SentKeys :
        /\ authorized(api_key)
        /\ RequestArrives(r)
        /\ requests' = [requests EXCEPT ![r] =
               Responded([@ EXCEPT !.endpoint = "play", !.api_key = api_key], Status(500))]
        /\ UNCHANGED <<tracks, files, clock, lookups, fetchers, sweeps, cleanup_lock,
                       checked_out, touches>>

\* Lines 330-333 and 338: os.path.exists on the file the row names; the stream
\* URL or 404; os.path.join on a NULL file_name raises (500). The connection
\* is returned.
play_check_file(r) ==
    /\ requests[r].pc = "selected"
    /\ LET file_name == requests[r].result.file_name
       IN requests' = [requests EXCEPT ![r] =
              IF ~Truthy(file_name) THEN Responded(@, Status(500))
              ELSE IF os_path_exists(path_join(MUSIC_DIRECTORY, file_name))
              THEN Responded(@, [Status(200) EXCEPT !.body = <<"/api/stream/">> \o file_name])
              ELSE Responded(@, Status(404))]
    /\ checked_out' = putconn(checked_out)
    /\ UNCHANGED <<tracks, files, clock, lookups, fetchers, sweeps, cleanup_lock, touches>>

\* ------------------------------------------------------------ stream_track

\* Line 344: os.path.abspath(music_file_path).startswith(os.path.abspath(MUSIC_DIRECTORY)).
inside_music_directory(music_file_path) ==
    startswith(abspath(music_file_path), abspath(MUSIC_DIRECTORY))

\* Line 361: threading.Thread(target=update_access_time).start()
start_touch(r, file_name) == [touches EXCEPT ![r] = [pc |-> "start", file_name |-> file_name]]

\* Lines 342-361: the path is joined and tested (403), looked for (404), and
\* the update_access_time thread is started.
stream_open(r) ==
    \E api_key \in SentKeys, file_name \in StreamNames :
        LET music_file_path == path_join(MUSIC_DIRECTORY, file_name)
            request == [requests[r] EXCEPT !.endpoint = "stream", !.api_key = api_key,
                                           !.file_name = file_name]
        IN /\ authorized(api_key)
           /\ string_converter(file_name)
           /\ RequestArrives(r)
           /\ IF ~inside_music_directory(music_file_path)
              THEN /\ requests' = [requests EXCEPT ![r] = Responded(request, Status(403))]
                   /\ UNCHANGED touches
              ELSE IF ~os_path_exists(music_file_path)
              THEN /\ requests' = [requests EXCEPT ![r] = Responded(request, Status(404))]
                   /\ UNCHANGED touches
              ELSE /\ requests' = [requests EXCEPT ![r] = [request EXCEPT !.pc = "opened"]]
                   /\ touches' = start_touch(r, file_name)
           /\ UNCHANGED <<tracks, files, clock, lookups, fetchers, sweeps, cleanup_lock,
                          checked_out>>

\* The text 'bytes=' and the Range headers a client can send: none, a first
\* offset with or without a last one, and a suffix range.
bytes_eq == <<"b", "y", "t", "e", "s", "=">>
RangeHeaders ==
    {NULL, bytes_eq \o <<"-", "2">>}
    \cup {bytes_eq \o str(first) \o <<"-">> : first \in Positions}
    \cup {bytes_eq \o str(first) \o <<"-">> \o str(last) : first \in Positions, last \in Positions}

\* The groups of re.search(r'bytes=(\d+)-(\d*)', range_header), or no match:
\* the leftmost place where 'bytes=' is followed by digits and a '-'; the
\* second group is the run of digits that follows.
NoMatch == [matched |-> FALSE, groups |-> <<>>]
match_at(s, i) ==
    LET first == i + Len(bytes_eq)
    IN /\ first - 1 <= Len(s)
       /\ SubSeq(s, i, first - 1) = bytes_eq
       /\ digit_run(s, first) >= 1
       /\ first + digit_run(s, first) <= Len(s)
       /\ s[first + digit_run(s, first)] = "-"
re_search(s) ==
    LET hits == {i \in 1..Len(s) : match_at(s, i)}
    IN IF hits = {} THEN NoMatch
       ELSE LET i == CHOOSE h \in hits : \A other \in hits : h <= other
                first == i + Len(bytes_eq)
                dash == first + digit_run(s, first)
            IN [matched |-> TRUE,
                groups |-> <<SubSeq(s, first, dash - 1),
                             SubSeq(s, dash + 1, dash + digit_run(s, dash + 1))>>]

\* Lines 366-370: start, end = 0, file_size - 1, replaced by what the header gives.
parse_range(range_header, file_size) ==
    LET match == re_search(range_header)
    IN [start |-> IF match.matched THEN int(match.groups[1]) ELSE 0,
        end |-> IF match.matched /\ match.groups[2] # <<>>
                THEN int(match.groups[2]) ELSE file_size - 1]

\* Line 371: if start >= file_size or end >= file_size.
range_not_satisfiable(start, end, file_size) == start >= file_size \/ end >= file_size

\* Line 373 without the + 1.
range_length_exclusive(start, end) == end - start

\* Line 373: length = (end - start) + 1.
range_length(start, end) == (end - start) + 1

\* Lines 374-382: the 206 response.
partial_content(music_file_path, start, end, file_size) ==
    [status |-> 206,
     content_length |-> str(range_length(start, end)),
     content_range |-> <<"b", "y", "t", "e", "s", " ">> \o str(start) \o <<"-">> \o str(end)
                       \o <<"/">> \o str(file_size),
     body |-> seek_read(music_file_path, start, range_length(start, end))]

\* Line 365: send_file, the whole file; a directory cannot be sent (500).
send_file(music_file_path, file_size) ==
    IF abspath(music_file_path) \in Directories THEN Status(500)
    ELSE [Status(200) EXCEPT !.content_length = str(file_size),
                             !.body = file_bytes(music_file_path)]

\* Lines 363-382: the Range header and the file size are read and the file is
\* answered whole (200), in part (206) or not at all (416).
stream_respond(r) ==
    /\ requests[r].pc = "opened"
    /\ \E range_header \in RangeHeaders :
         LET music_file_path == path_join(MUSIC_DIRECTORY, requests[r].file_name)
             file_size == getsize(music_file_path)
             range == parse_range(range_header, file_size)
             request == [requests[r] EXCEPT !.range_header = range_header]
         IN requests' = [requests EXCEPT ![r] =
                IF ~Truthy(range_header)
                THEN Responded(request, send_file(music_file_path, file_size))
                ELSE IF range_not_satisfiable(range.start, range.end, file_size)
                THEN Responded(request, Status(416))
                ELSE Responded(request, partial_content(music_file_path, range.start,
                                                        range.end, file_size))]
    /\ UNCHANGED <<tracks, files, clock, lookups, fetchers, sweeps, cleanup_lock,
                   checked_out, touches>>

\* ------------------------------------------- update_access_time (the touch)

\* Line 354: UPDATE tracks SET last_accessed_at = NOW() WHERE file_name = %s.
touch(file_name) ==
    [q \in Queries |->
        IF tracks[q].file_name = file_name
        THEN [tracks[q] EXCEPT !.last_accessed_at = clock + 1]
        ELSE tracks[q]]

\* Lines 350-360: the connection is taken, the row updated and committed, the
\* connection returned.
update_access_time(t) ==
    /\ touches[t].pc = "start"
    /\ checked_out < maxconn
    /\ tracks' = touch(touches[t].file_name)
    /\ clock' = clock + 1
    /\ touches' = [touches EXCEPT ![t] = EndedTouch]
    /\ UNCHANGED <<files, lookups, fetchers, sweeps, cleanup_lock, checked_out, requests>>

\* Lines 352-355 raising: the error is logged (lines 357-358), the connection,
\* if one was taken, is returned (line 360).
update_access_time_fail(t) ==
    /\ touches[t].pc = "start"
    /\ touches' = [touches EXCEPT ![t] = EndedTouch]
    /\ UNCHANGED <<tracks, files, clock, lookups, fetchers, sweeps, cleanup_lock,
                   checked_out, requests>>

\* ------------------------------------------------------------ specification

Lookup(l) ==
    \/ LookupNoTrack(l)
    \/ LookupSelect(l)
    \/ LookupSelectFail(l)
    \/ LookupCheckFile(l)
    \/ LookupWrite(l)
    \/ LookupWriteFail(l)
    \/ LookupDispatch(l)

Fetcher(f) ==
    \/ FetcherConnectFail(f)
    \/ FetcherDownload(f)
    \/ FetcherDownloadFail(f)
    \/ FetcherMarkCached(f)
    \/ FetcherMarkCachedFail(f)
    \/ FetcherMarkErrorFail(f)

Sweep(s) ==
    \/ SweepAcquire(s)
    \/ SweepCheck(s)
    \/ SweepCheckFail(s)
    \/ SweepSelect(s)
    \/ SweepConnectFail(s)
    \/ SweepSelectFail(s)
    \/ SweepFinish(s)
    \/ SweepSkip(s)
    \/ SweepUnlink(s)
    \/ SweepUnlinkFail(s)
    \/ SweepDeleteRow(s)
    \/ SweepDeleteRowFail(s)

Next == \E l \in Lookups : Lookup(l) \/ Fetcher(l) \/ Sweep(l)

Spec == Init /\ [][Next]_vars

\* The serving side, on what the caching side left: the cached track with its
\* artifact, the cached track whose artifact is gone, or an artifact no row names.
ApiStarts ==
    {[tracks |-> OldStore, files |-> (old_filename :> size), clock |-> 1] :
        size \in StreamSizes}
    \cup {[tracks |-> OldStore, files |-> <<>>, clock |-> 1],
          [tracks |-> EmptyStore, files |-> (old_filename :> 3), clock |-> 1]}

ApiInit ==
    /\ \E start \in ApiStarts :
         /\ tracks = start.tracks
         /\ files = start.files
         /\ clock = start.clock
    /\ lookups = [l \in Lookups |-> IdleLookup]
    /\ fetchers = [l \in Lookups |-> NoFetcher]
    /\ sweeps = [l \in Lookups |-> NoSweep]
    /\ cleanup_lock = FALSE
    /\ checked_out = 0
    /\ requests = [r \in Requests |-> IdleRequest]
    /\ touches = [r \in Requests |-> NoTouch]

Request(r) ==
    \/ Unauthorized(r)
    \/ StreamNoRoute(r)
    \/ health(r)
    \/ list_tracks(r)
    \/ list_tracks_fail(r)
    \/ play_bad_request(r)
    \/ play_select(r)
    \/ play_select_fail(r)
    \/ play_check_file(r)
    \/ stream_open(r)
    \/ stream_respond(r)

Touch(t) ==
    \/ update_access_time(t)
    \/ update_access_time_fail(t)

ApiNext == \E r \in Requests : Request(r) \/ Touch(r)

ApiSpec == ApiInit /\ [][ApiNext]_vars

\* ------------------------------------------------------------------ claims

\* The Fetcher threads that run: started and not ended.
InFlight(f) == fetchers[f].pc \in {"start", "renamed"}

\* Request l takes a step.
Steps(l) == lookups'[l] # lookups[l]

\* The Fetcher record request l starts.
Started(l) == [pc |-> "start", q |-> lookups[l].q, file_name |-> NULL]

\* C1: Concurrent first lookups of a query dispatch exactly one Fetcher: of the
\* lookups that found no row for q, only the one whose INSERT created the row
\* has committed and goes on to start a Fetcher.
C1_OneFetcherPerFirstLookup ==
    \A l \in Lookups :
        (lookups[l].pc = "written" /\ ~lookups[l].file_is_missing) => lookups[l].inserted

\* C2: At most one Fetcher is in flight for any search_query.
C2_AtMostOneFetcherInFlight ==
    \A q \in Queries :
        Cardinality({f \in Lookups : InFlight(f) /\ fetchers[f].q = q}) <= 1

\* C3: A lookup that finds the row with status error restarts caching and
\* answers caching, so that a Fetcher failure is never reported as error: no
\* request is answered with status error.
C3_ErrorIsNeverTheAnswer ==
    \A l \in Lookups : ~(lookups[l].pc = "done" /\ lookups[l].status = "error")

\* C4: A lookup that finds the row with status caching answers caching, starts no
\* Fetcher and leaves the table unchanged.
C4_CachingIsNotRedispatched ==
    [][\A l \in Lookups :
        (/\ lookups[l].pc = "idle" /\ Steps(l)
         /\ lookups'[l].q \in Queries
         /\ tracks[lookups'[l].q].status = "caching")
        => /\ lookups'[l] = Answered(lookups'[l].q, "caching")
           /\ UNCHANGED <<tracks, fetchers>>]_vars

\* C4 witness: a request was answered caching and no Fetcher was started for it.
C4_Witness ==
    \E l \in Lookups :
        lookups[l].pc = "done" /\ lookups[l].status = "caching" /\ fetchers[l].pc = "none"

\* C5: A single lookup that finds the row cached with a null file_name or with its
\* file absent sets the row to caching with file_name cleared, starts exactly one
\* Fetcher and answers caching (or answers 500 without starting one when the store
\* write raises); when the file exists it changes nothing, starts nothing and
\* answers cached. Single: nothing else has written the row since the lookup read it.
C5_MissingFileRepair ==
    [][\A l \in Lookups :
        LET r == lookups[l].result
            q == lookups[l].q
        IN /\ (lookups[l].pc = "selected" /\ Steps(l))
              => /\ UNCHANGED <<tracks, fetchers>>
                 /\ IF r.file_name \in DOMAIN files
                    THEN lookups'[l] = Answered(q, "cached")
                    ELSE lookups'[l] = [lookups[l] EXCEPT !.pc = "checked",
                                                          !.file_is_missing = TRUE]
           /\ (lookups[l].pc = "checked" /\ r.status = "cached" /\ Steps(l))
              => /\ lookups[l].file_is_missing
                 /\ UNCHANGED fetchers
                 /\ \/ /\ lookups'[l] = Answered("", "500")
                       /\ UNCHANGED tracks
                    \/ /\ lookups'[l].pc = "written"
                       /\ lookups'[l].status = "caching"
                       /\ tracks[q] = r =>
                            tracks' = [tracks EXCEPT ![q] =
                                          [r EXCEPT !.status = "caching", !.file_name = NULL]]
           /\ (lookups[l].pc = "written" /\ lookups[l].file_is_missing /\ Steps(l))
              => /\ lookups'[l] = Answered(q, "caching")
                 /\ fetchers' = [fetchers EXCEPT ![l] = Started(l)]
                 /\ UNCHANGED tracks]_vars

\* C5 witness: a request was answered caching, its Fetcher is started, and the row
\* of its query is caching with no file_name but with the last_accessed_at of an
\* earlier caching: the row was cached and has been reset.
C5_Witness ==
    \E l \in Lookups :
        /\ lookups[l].pc = "done" /\ lookups[l].status = "caching"
        /\ fetchers[l].pc = "start"
        /\ LET row == tracks[fetchers[l].q]
           IN row.status = "caching" /\ row.file_name = NULL /\ row.last_accessed_at > 0

\* C6: Concurrent lookups that find the same cached row with its file missing
\* reset it once and dispatch one Fetcher: no two of them have both committed the
\* reset and go on to start a Fetcher.
C6_OneRepairAcrossLookups ==
    \A l1, l2 \in Lookups :
        (/\ l1 # l2
         /\ lookups[l1].pc = "written" /\ lookups[l1].file_is_missing
         /\ lookups[l2].pc = "written" /\ lookups[l2].file_is_missing)
        => lookups[l1].result # lookups[l2].result

\* C7: Every row with status cached has a non-null file_name that is a basename.
C7_CachedHasBasename ==
    \A q \in Queries :
        tracks[q].status = "cached"
        => Truthy(tracks[q].file_name) /\ IsBasename(tracks[q].file_name)

\* C7 witness: a Fetcher of this run has cached a row, and the file is in the directory.
C7_Witness ==
    \E q \in Queries, f \in Lookups :
        /\ tracks[q].status = "cached"
        /\ tracks[q].file_name = unique_filename(f)
        /\ path_exists(tracks[q].file_name)

\* C8: Every row with status caching or error has a null file_name.
C8_NoFileNameUnlessCached ==
    \A q \in Queries :
        tracks[q].status \in {"caching", "error"} => tracks[q].file_name = NULL

\* C9: A Fetcher that ends after a failure (it ends without having started the
\* sweep, which only a success does) leaves the row of its query with status error.
C9_FailedFetcherMarksError ==
    [][\A f \in Lookups :
        (InFlight(f) /\ fetchers'[f].pc = "ended" /\ sweeps'[f].pc = "none")
        => tracks'[fetchers[f].q].status = "error"]_vars

\* C10: The sweep never deletes a row while the file the row names is in the
\* directory: the unlink comes first, and a failed unlink keeps the row.
C10_RowDeletedAfterFile ==
    [][\A q \in Queries :
        (HasRow(q) /\ tracks'[q] = NoRow) => tracks[q].file_name \notin DOMAIN files']_vars

\* C10 witness: a sweep has unlinked a file and run the DELETE, and no file and
\* no row is left.
C10_Witness ==
    /\ \E s \in Lookups : sweeps[s].pc = "loop" /\ sweeps[s].deleted_bytes_total > 0
    /\ \A q \in Queries : ~HasRow(q)
    /\ files = <<>>

\* The sweeps that hold the lock: past line 120 and not yet at line 173.
PastLock(s) == sweeps[s].pc \in {"check", "select", "loop", "unlinked"}

\* C11: At most one sweep is past the cleanup lock at any time; a cleanup_cache
\* call that finds the lock held ends at once, leaving the table, the directory
\* and the lock as they are; and a sweep that has ended never runs again.
C11_OneSweepOthersDropped ==
    /\ [](Cardinality({s \in Lookups : PastLock(s)}) <= 1)
    /\ [][\A s \in Lookups :
            /\ (sweeps[s].pc = "start" /\ sweeps'[s] # sweeps[s] /\ cleanup_lock)
               => /\ sweeps'[s] = EndedSweep
                  /\ UNCHANGED <<tracks, files, cleanup_lock>>
            /\ sweeps[s].pc = "done" => sweeps'[s].pc = "done"]_vars

\* C11 witness: a sweep was dropped while another one holds the lock.
C11_Witness ==
    \E s1, s2 \in Lookups : PastLock(s1) /\ sweeps[s2].pc = "done" /\ cleanup_lock

\* Sweep s completes: its loop is over and it returns (lines 167-173).
Completes(s) == sweeps[s].pc = "loop" /\ sweeps'[s].pc = "done"

\* C12: When a sweep that found the directory above CACHE_LIMIT_BYTES completes,
\* the directory's total size is at most CACHE_LIMIT_BYTES (the step that
\* completes the sweep leaves the directory as it is).
C12_SweepEndsBelowLimit ==
    [][\A s \in Lookups : Completes(s) => total_size <= CACHE_LIMIT_BYTES]_vars

\* C13: When a sweep completes, every file in the directory is named by the
\* file_name of a row; and whenever a row is deleted, the file it named is not in
\* the directory.
C13_NoOrphanAfterSweep ==
    [][/\ \A s \in Lookups :
            Completes(s) =>
                \A name \in DOMAIN files' : \E q \in Queries : tracks'[q].file_name = name
       /\ \A q \in Queries :
            (HasRow(q) /\ ~HasRow(q)') => ~path_exists(tracks[q].file_name)']_vars

\* C14: The check of a sweep goes on to delete whenever the directory's total
\* size is at least CACHE_LIMIT_BYTES, the total equal to it included; below
\* it the sweep ends with no file and no row deleted.
C14_SweepsAtLimit ==
    [][\A s \in Lookups :
        SweepCheck(s) =>
            IF total_size >= CACHE_LIMIT_BYTES
            THEN sweeps'[s].pc = "select"
            ELSE sweeps'[s] = EndedSweep /\ UNCHANGED <<tracks, files>>]_vars

\* C19 as stated: whenever a row is deleted, no cached row that was accessed
\* less recently is kept with its file in the directory.
C19_NoOlderCachedRowKept ==
    [][\A q \in Queries :
        (HasRow(q) /\ ~HasRow(q)') =>
            \A older \in Queries \ {q} :
                ~(/\ tracks'[older].status = "cached"
                  /\ tracks'[older].file_name \in DOMAIN files'
                  /\ tracks'[older].last_accessed_at < tracks[q].last_accessed_at)]_vars

\* C19 amended: the sweep's SELECT returns the file names of the rows that are
\* cached at that time in ascending order of last_accessed_at, and the sweep takes
\* its victims from the front of that list, one at a time: every file it removes
\* and every row it deletes is the one at the head of what is left of the list,
\* a row is deleted only after its file was removed, and the list only loses its
\* head (a victim deleted, or passed over because it has no file_name, its file
\* is absent, or the removal raised).
C19_VictimsInSelectOrder ==
    [][\A s \in Lookups :
        LET list == sweeps[s].tracks_to_delete
            named(name) == {q \in CachedQueries : tracks[q].file_name = name}
        IN sweeps'[s] # sweeps[s] =>
            /\ (sweeps[s].pc = "select" /\ sweeps'[s].pc = "loop") =>
                 LET order == sweeps'[s].tracks_to_delete
                 IN /\ Len(order) = Cardinality(CachedQueries)
                    /\ \A q \in CachedQueries : \E i \in DOMAIN order : order[i] = tracks[q].file_name
                    /\ \A i, j \in DOMAIN order :
                         i < j => \A qi \in named(order[i]), qj \in named(order[j]) :
                                     tracks[qi].last_accessed_at <= tracks[qj].last_accessed_at
            /\ sweeps[s].pc \in {"loop", "unlinked"} =>
                 /\ \/ sweeps'[s].pc = "done"
                    \/ sweeps'[s].tracks_to_delete = list
                    \/ list # <<>> /\ sweeps'[s].tracks_to_delete = Tail(list)
                 /\ \A name \in DOMAIN files \ DOMAIN files' : name = Head(list)
                 /\ \A q \in Queries :
                      (HasRow(q) /\ ~HasRow(q)') =>
                          /\ sweeps[s].pc = "unlinked"
                          /\ tracks[q].file_name = Head(list)]_vars

\* C19 witness: a sweep has deleted two victims, the older one first: both files
\* of the run are gone and their sizes are counted.
C19_Witness ==
    \E s \in Lookups :
        /\ sweeps[s].pc = "loop"
        /\ sweeps[s].deleted_bytes_total = 10
        /\ files = <<>>
        /\ \A q \in Queries : ~HasRow(q)

\* The operations that hold a connection of the pool.
Holding ==
    Cardinality({l \in Lookups : lookups[l].pc \in {"selected", "checked", "written"}})
    + Cardinality({s \in Lookups : sweeps[s].pc \in {"loop", "unlinked"}})

\* C20: Every operation puts its connection back on every exit path: the number
\* of connections out of the pool is the number of operations that are holding
\* one (zero when none is running), and it stays below the pool's 10.
C20_ConnectionsReturned ==
    checked_out = Holding /\ checked_out < maxconn

\* Request r is a stream request that was answered after its Range header was
\* read, and the header is bytes=<first>-<last>, or bytes=<first>- when last is -1.
AskedRange(r, first, last) ==
    /\ requests[r].pc = "done"
    /\ requests[r].endpoint = "stream"
    /\ requests[r].file_name \in DOMAIN files
    /\ requests[r].range_header =
           bytes_eq \o str(first) \o <<"-">> \o (IF last = -1 THEN <<>> ELSE str(last))

\* The last offset such a header asks for in a file of the given size.
LastAsked(last, size) == IF last = -1 THEN size - 1 ELSE last

\* C15: A stream request for an artifact of size S with Range bytes=<start>-<end?>
\* and start <= end < S (end is S - 1 when left out) is answered 206 with
\* Content-Length end - start + 1, Content-Range 'bytes <start>-<end>/<S>' and
\* the file's bytes from offset start to offset end as its body.
C15_RangeIsServed ==
    \A r \in Requests, first \in Positions, last \in Positions \cup {-1} :
        LET size == files[requests[r].file_name]
            path == path_join(MUSIC_DIRECTORY, requests[r].file_name)
            end == LastAsked(last, size)
        IN (AskedRange(r, first, last) /\ first <= end /\ end < size) =>
               /\ requests[r].response.status = 206
               /\ requests[r].response.content_length = str(end - first + 1)
               /\ requests[r].response.content_range =
                      <<"b", "y", "t", "e", "s", " ">> \o str(first) \o <<"-">> \o str(end)
                      \o <<"/">> \o str(size)
               /\ requests[r].response.body =
                      [i \in 1..(end - first + 1) |-> file_bytes(path)[first + i]]

\* C15 witness: bytes=2-11 of the 12-byte artifact was answered with 10 bytes.
C15_Witness ==
    \E r \in Requests :
        /\ AskedRange(r, 2, 11)
        /\ requests[r].response.status = 206
        /\ Len(requests[r].response.body) = 10

\* C16: A stream request for an artifact of size S with Range bytes=<start>-<end?>
\* is answered 416 whenever start >= S, end >= S or start > end; no such
\* request is answered 206 with start > end.
C16_BadRangeIs416 ==
    \A r \in Requests, first \in Positions, last \in Positions \cup {-1} :
        LET size == files[requests[r].file_name]
            end == LastAsked(last, size)
        IN AskedRange(r, first, last) =>
               /\ (first >= size \/ end >= size \/ first > end)
                      => requests[r].response.status = 416
               /\ requests[r].response.status = 206 => first <= end

\* C17: A request to /api/now-playing, /api/tracks, /api/play or /api/stream
\* whose key is missing or is not the configured key is answered 401 in the step
\* it arrives, with the table, the directory, the pool and every thread left as
\* they are; a request to /health is answered 200 {"status":"ok"} whatever its key.
C17_KeyBeforeEffect ==
    [][\A r \in Requests :
        (requests[r].pc = "idle" /\ requests'[r] # requests[r]) =>
            /\ (requests'[r].endpoint \in ApiEndpoints /\ requests'[r].api_key # API_KEY)
                   => /\ requests'[r].pc = "done"
                      /\ requests'[r].response = Status(401)
                      /\ UNCHANGED <<tracks, files, clock, lookups, fetchers, sweeps,
                                     cleanup_lock, checked_out, touches>>
            /\ requests'[r].endpoint = "health"
                   => /\ requests'[r].pc = "done"
                      /\ requests'[r].response =
                             [Status(200) EXCEPT !.body = <<"{\"status\":\"ok\"}">>]]_vars

\* C17 witness: a request without a key was answered 401.
C17_Witness ==
    \E r \in Requests :
        /\ requests[r].pc = "done"
        /\ requests[r].endpoint \in ApiEndpoints
        /\ requests[r].api_key = NULL
        /\ requests[r].response.status = 401

\* The path a stream request resolves to is the music directory or below it.
Contained(file_name) ==
    LET resolved == abspath(path_join(MUSIC_DIRECTORY, file_name))
    IN resolved = MUSIC_DIRECTORY \/ startswith(resolved, MUSIC_DIRECTORY \o <<"/">>)

Rejected == {401, 403, 404, 416}

\* C21: The last_accessed_at of a row changes only in a Fetcher's transition to
\* cached and in the touch of a stream request, and never in the touch of a
\* stream request that has been answered 401, 403, 404 or 416.
C21_OnlyServedStreamsTouch ==
    [][\A q \in Queries :
        (/\ HasRow(q) /\ HasRow(q)'
         /\ tracks'[q].last_accessed_at # tracks[q].last_accessed_at)
        => \/ \E f \in Lookups :
                /\ fetchers[f].pc = "renamed" /\ fetchers'[f].pc = "ended"
                /\ fetchers[f].q = q /\ tracks'[q].status = "cached"
           \/ \E t \in Requests :
                /\ touches[t].pc = "start" /\ touches'[t].pc = "done"
                /\ tracks[q].file_name = touches[t].file_name
                /\ ~(/\ requests[t].pc = "done"
                     /\ requests[t].response.status \in Rejected)]_vars

\* C22: The lock is held exactly while a sweep is between its acquire and its
\* return: once the sweep that took it has ended, by the early return, at the
\* end of its loop or on an exception, the lock is free for the next trigger;
\* and the sweep that holds it always has a step to take, so it is not held
\* forever.
C22_LockReleased ==
    /\ cleanup_lock = (\E s \in Lookups : PastLock(s))
    /\ \A s \in Lookups : PastLock(s) => ENABLED Sweep(s)

\* C22 witness: a sweep has ended on a store exception (its connection is still
\* out), the lock is free, and a later sweep is about to try it.
C22_Witness ==
    /\ ~cleanup_lock
    /\ checked_out > Holding
    /\ \E s1, s2 \in Lookups : sweeps[s1].pc = "done" /\ sweeps[s2].pc = "start"

====
